---- MODULE Spec2Model ----
(***************************************************************************)
(* 2018 Day 12: a one-dimensional cellular automaton kept in a doubly      *)
(* linked chain of pots around a root pot (position 0).  The model keeps   *)
(* the heap of Pot objects, the rule mapping and the position of           *)
(* Rules.apply inside one generation.                                      *)
(***************************************************************************)
EXTENDS Integers, Sequences, FiniteSets, TLC

VARIABLES
    initial,        \* the tape literal handed to Pot.from_initial
    lines,          \* the rule lines handed to Rules.from_lines
    type,           \* heap: type[c] is the class of object c
    plant,          \* heap: plant[c] is Pot c's plant
    left,           \* heap: left[c] is Pot c's left link (None or a pot)
    right,          \* heap: right[c] is Pot c's right link
    root,           \* Plants.root
    mapping,        \* Rules.mapping
    pc,             \* where the program is: new, idle, walk, trim, forever, raised
    dir,            \* apply: the direction of the current pass
    state,          \* apply: the rolling 5-window
    central_state,  \* apply: the window around the root
    lookaheads,     \* apply: per direction, the pot the lookahead iterator rests on
    pot,            \* apply: the loop variable (a Pot or a PotentialPot)
    steps,          \* number of completed Plants.step() calls
    old,            \* history: the real and the planted positions when step() was called
    written,        \* history: the pots whose plant the running apply has assigned
    calls           \* number of direct Pot.append / Pot.detach calls made

inputs == <<initial, lines>>
vars == <<initial, lines, type, plant, left, right, root, mapping, pc, dir, state,
          central_state, lookaheads, pot, steps, old, written, calls>>
history == <<old, written>>

----------------------------------------------------------------------------
(* Bounds of the model *)

MaxLen == 3

MaxSteps == 4

MaxCalls == 2

----------------------------------------------------------------------------
(* Values *)

None == 0

TestSteps == 20

Dirs == {"left", "right"}

_reverse(d) == IF d = "left" THEN "right" ELSE "left"

AllFalse == <<FALSE, FALSE, FALSE, FALSE, FALSE>>

Min(a, b) == IF a < b THEN a ELSE b

Max(a, b) == IF a < b THEN b ELSE a

\* product([False, True], repeat=5)
RuleKeys == [1..5 -> BOOLEAN]

\* blank rules that plant every pattern
_blank_rules_planted == [k \in RuleKeys |-> TRUE]

_blank_rules == [k \in RuleKeys |-> FALSE]

----------------------------------------------------------------------------
(* Inputs: tape literals and rule files *)

TapeChars == {".", "#"}

StringsUpTo(n) == UNION {[1..k -> TapeChars] : k \in 1..n}

TestTape ==
    <<"#", ".", ".", "#", ".", "#", ".", ".", "#", "#", ".", ".", ".", ".",
      ".", ".", "#", "#", "#", ".", ".", ".", "#", "#", "#">>

\* literals with a character that is neither '.' nor '#'
BadTapes == {<<"x">>, <<"#", "x">>, <<"x", "#", ".">>}

\* the literal without any character
EmptyTape == << >>

Tapes == StringsUpTo(MaxLen) \cup {TestTape} \cup BadTapes \cup {EmptyTape}

\* the text "<pattern> => <result>"
RuleLine(p, r) == p \o <<" ", "=", ">", " ">> \o <<r>>

Grows(p) == RuleLine(p, "#")

TestRules ==
    << << >>,
       Grows(<<".", ".", ".", "#", "#">>),
       Grows(<<".", ".", "#", ".", ".">>),
       Grows(<<".", "#", ".", ".", ".">>),
       Grows(<<".", "#", ".", "#", ".">>),
       Grows(<<".", "#", ".", "#", "#">>),
       Grows(<<".", "#", "#", ".", ".">>),
       Grows(<<".", "#", "#", "#", "#">>),
       Grows(<<"#", ".", "#", ".", "#">>),
       Grows(<<"#", ".", "#", "#", "#">>),
       Grows(<<"#", "#", ".", "#", ".">>),
       Grows(<<"#", "#", ".", "#", "#">>),
       Grows(<<"#", "#", "#", ".", ".">>),
       Grows(<<"#", "#", "#", ".", "#">>),
       Grows(<<"#", "#", "#", "#", ".">>) >>

NoRules == << >>

ShiftRightRules == << Grows(<<".", "#", ".", ".", ".">>) >>

ShiftLeftRules == << Grows(<<".", ".", ".", "#", ".">>) >>

FarRules == << Grows(<<"#", ".", ".", ".", ".">>), Grows(<<".", ".", ".", ".", "#">>) >>

SpreadRules ==
    << Grows(<<".", ".", ".", "#", ".">>),
       Grows(<<".", ".", "#", "#", ".">>),
       Grows(<<".", "#", ".", ".", ".">>),
       Grows(<<"#", ".", ".", ".", ".">>) >>

SproutRules == << Grows(<<".", ".", ".", ".", ".">>) >>

\* the same pattern on several lines
DuplicateRules ==
    << Grows(<<".", "#", ".", ".", ".">>),
       RuleLine(<<".", "#", ".", ".", ".">>, "."),
       RuleLine(<<".", ".", ".", "#", ".">>, "."),
       Grows(<<".", ".", ".", "#", ".">>) >>

\* a line with a pattern of three symbols
ShortPatternRules ==
    << Grows(<<".", "#", ".", ".", ".">>), Grows(<<".", ".", "#">>) >>

\* a line without any symbol
NoSymbolRules == << Grows(<<".", "#", ".", ".", ".">>), <<"=", ">">> >>

RuleFiles ==
    {TestRules, NoRules, ShiftRightRules, ShiftLeftRules, FarRules, SpreadRules,
     SproutRules, DuplicateRules, ShortPatternRules, NoSymbolRules}

----------------------------------------------------------------------------
(* The heap of Pot objects.  A machine record m carries the heap and the   *)
(* locals of Rules.apply; the operators below are the methods of Pot.      *)

\* getattr(c, d)
Link(m, c, d) == IF d = "left" THEN m.left[c] ELSE m.right[c]

\* setattr(c, d, v)
SetLink(m, c, d, v) ==
    IF d = "left" THEN [m EXCEPT !.left[c] = v] ELSE [m EXCEPT !.right[c] = v]

\* t(p): a new object of class t, both links None; its id is the new heap
\* size
New(m, t, p) ==
    [m EXCEPT !.type = Append(@, t), !.plant = Append(@, p),
              !.left = Append(@, None), !.right = Append(@, None)]

\* Pot(p)
NewPot(m, p) == New(m, "Pot", p)

Newest(m) == Len(m.plant)

Raise(m) == [m EXCEPT !.pc = "raised"]

\* Pot.append without its assert
append_unchecked(m, c, d, n) == SetLink(SetLink(m, c, d, n), n, _reverse(d), c)

\* Pot.append: link new pot n beyond c in direction d
append(m, c, d, n) ==
    IF Link(m, c, d) # None
    THEN Raise(m)
    ELSE SetLink(SetLink(m, c, d, n), n, _reverse(d), c)

\* Pot.detach cutting only the link of c itself
detach_one_sided(m, c, d) ==
    IF Link(m, c, d) = None THEN Raise(m) ELSE SetLink(m, c, d, None)

\* Pot.detach: cut the link from c in direction d; the caller continues at
\* the pot that was linked there
detach(m, c, d) ==
    IF Link(m, c, d) = None
    THEN Raise(m)
    ELSE SetLink(SetLink(m, c, d, None), Link(m, c, d), _reverse(d), None)

\* Pot.iter_dir as a sequence: the pots beyond c in direction d, nearest first
RECURSIVE iter_dir(_, _, _)
iter_dir(m, c, d) ==
    IF Link(m, c, d) = None THEN << >>
    ELSE <<Link(m, c, d)>> \o iter_dir(m, Link(m, c, d), d)

(* Positions on the tape, counted in link hops from the root *)

\* the pot k hops from c in direction d, None beyond the end of the chain
RECURSIVE Hop(_, _, _, _)
Hop(m, c, d, k) ==
    IF k = 0 \/ c = None THEN c ELSE Hop(m, Link(m, c, d), d, k - 1)

PotAt(m, p) ==
    IF p < 0 THEN Hop(m, m.root, "left", 0 - p) ELSE Hop(m, m.root, "right", p)

Positions(m) == (0 - Len(m.plant))..Len(m.plant)

\* the pots reachable from the root
Reach(m) == {PotAt(m, p) : p \in Positions(m)} \ {None}

\* the positions that hold a real pot
Real(m) == {p \in Positions(m) : PotAt(m, p) # None}

\* the positions that hold a plant; a position without a real pot holds none
Planted(m) == {p \in Real(m) : m.plant[PotAt(m, p)]}

EmptyMachine ==
    [type |-> << >>, plant |-> << >>, left |-> << >>, right |-> << >>, root |-> None,
     pc |-> "new", dir |-> "left", state |-> << >>, central_state |-> << >>,
     lookaheads |-> [d \in Dirs |-> None],
     pot |-> [potential |-> FALSE, cell |-> None, parent |-> None]]

\* the loop of Pot.from_initial: append one pot per character from index i on
RECURSIVE from_initial_loop(_, _, _, _)
from_initial_loop(m, s, i, last) ==
    IF i > Len(s) \/ m.pc = "raised" THEN m
    ELSE LET m1 == NewPot(m, s[i] = "#")
             m2 == append(m1, last, "right", Newest(m1))
         IN  from_initial_loop(m2, s, i + 1, Newest(m1))

\* from_initial returning the start pot instead of start.right
from_initial_keeps_start(s) ==
    LET m0 == NewPot(EmptyMachine, FALSE)
        m1 == from_initial_loop(m0, s, 1, Newest(m0))
    IN  [m1 EXCEPT !.root = 1, !.pc = "idle"]

\* from_initial without root.left = None
from_initial_keeps_left(s) ==
    LET m0 == NewPot(EmptyMachine, FALSE)
        m1 == from_initial_loop(m0, s, 1, Newest(m0))
    IN  IF m1.right[1] = None THEN Raise(m1)
        ELSE [m1 EXCEPT !.root = m1.right[1], !.pc = "idle"]

\* Pot.from_initial: the start pot is heap object 1, the root is start.right
from_initial(s) ==
    LET m0 == NewPot(EmptyMachine, FALSE)
        m1 == from_initial_loop(m0, s, 1, Newest(m0))
        r  == m1.right[1]
    IN  IF m1.pc = "raised" \/ r = None THEN Raise(m1)
        ELSE [SetLink(m1, r, "left", None) EXCEPT !.root = r, !.pc = "idle"]

----------------------------------------------------------------------------
(* Rules.from_lines *)

\* line.strip() is empty
IsBlank(line) == \A i \in 1..Len(line) : line[i] = " "

IsSymbol(c) == c \in {".", "#"}

\* _rule_parse(line), each symbol compared with '#'
Parsed(line) ==
    LET syms == SelectSeq(line, IsSymbol)
    IN  [i \in 1..Len(syms) |-> syms[i] = "#"]

\* *k, r = parsed
KeyOf(line) == SubSeq(Parsed(line), 1, Len(Parsed(line)) - 1)

ResultOf(line) == Parsed(line)[Len(Parsed(line))]

\* *k, r = parsed needs at least one value
Unpacks(line) == Len(Parsed(line)) >= 1

\* Rules.from_lines raises (ValueError from the unpacking)
from_lines_raises(ls) ==
    \E i \in 1..Len(ls) : ~IsBlank(ls[i]) /\ ~Unpacks(ls[i])

\* the dict comprehension over the non-blank lines, later entries replacing
\* earlier ones, laid over _blank_rules
RECURSIVE from_lines_loop(_, _, _)
from_lines_loop(map, ls, i) ==
    IF i > Len(ls) THEN map
    ELSE IF IsBlank(ls[i]) THEN from_lines_loop(map, ls, i + 1)
    ELSE from_lines_loop((KeyOf(ls[i]) :> ResultOf(ls[i])) @@ map, ls, i + 1)

\* a dict build that takes the lines from the last to the first
RECURSIVE from_lines_loop_down(_, _, _)
from_lines_loop_down(map, ls, i) ==
    IF i < 1 THEN map
    ELSE IF IsBlank(ls[i]) THEN from_lines_loop_down(map, ls, i - 1)
    ELSE from_lines_loop_down((KeyOf(ls[i]) :> ResultOf(ls[i])) @@ map, ls, i - 1)

from_lines_backwards(ls) == from_lines_loop_down(_blank_rules, ls, Len(ls))

from_lines(ls) == from_lines_loop(_blank_rules, ls, 1)

\* a lookup that plants the all-False window whatever the mapping says
next_plant_state_sprouts(map, key) == key = AllFalse \/ map[key]

\* self.mapping.__getitem__
next_plant_state(map, key) == map[key]

----------------------------------------------------------------------------
(* Rules.apply, one loop iteration at a time *)

\* the state rotation functions of _for_d
\* a rotation that shifts the window the same way in both directions
rot_rightwards(d, s, p) == SubSeq(s, Max(1, Len(s) - 3), Len(s)) \o <<p>>

rot(d, s, p) ==
    IF d = "left"
    THEN <<p>> \o SubSeq(s, 1, Min(4, Len(s)))
    ELSE SubSeq(s, Max(1, Len(s) - 3), Len(s)) \o <<p>>

\* the pot that root.iter_dir(d) inside the lookahead moves to on its next
\* resumption; None once iter_dir has ended and repeat(False) has taken over
LookNext(m, d) ==
    IF m.lookaheads[d] = None THEN None ELSE Link(m, m.lookaheads[d], d)

\* next(lookahead)
LookPlant(m, d) ==
    IF LookNext(m, d) = None THEN FALSE ELSE m.plant[LookNext(m, d)]

LookAdvance(m, d) == [m EXCEPT !.lookaheads[d] = LookNext(m, d)]

\* for plant in islice(lookahead, None, 2): state = rot(state, plant)
Seed(m, d) ==
    LET m1 == [LookAdvance(m, d) EXCEPT !.state = rot(d, m.state, LookPlant(m, d))]
    IN  [LookAdvance(m1, d) EXCEPT !.state = rot(d, m1.state, LookPlant(m1, d))]

RealPot(c) == [potential |-> FALSE, cell |-> c, parent |-> None]

\* PotentialPot(False, p, dir): _linked (kept in cell) is None
PotentialPot(p) == [potential |-> TRUE, cell |-> None, parent |-> p]

\* a pass that makes its lookahead anew instead of taking the seeded one
StartPass_fresh_lookahead(m, d) ==
    [m EXCEPT !.dir = d, !.state = m.central_state, !.pot = RealPot(m.root),
              !.pc = "walk", !.lookaheads[d] = m.root]

\* a pass that starts without state = central_state
StartPass_stale(m, d) ==
    [m EXCEPT !.dir = d, !.pot = RealPot(m.root), !.pc = "walk"]

\* state = central_state; pot = root; the zip loop is about to start
StartPass(m, d) ==
    [m EXCEPT !.dir = d, !.state = m.central_state, !.pot = RealPot(m.root),
              !.pc = "walk"]

\* the part of apply before the passes: the central window from the old
\* plants, then the root is rewritten
apply_begin(m, map) ==
    LET m0 == [m EXCEPT !.state = <<m.plant[m.root]>>,
                        !.lookaheads = [d \in Dirs |-> m.root]]
        m1 == Seed(Seed(m0, "left"), "right")
        m2 == [m1 EXCEPT !.central_state = m1.state,
                         !.plant[m.root] = next_plant_state(map, m1.state)]
    IN  StartPass(m2, "left")

\* with_potentials has nothing more to yield: the last PotentialPot it
\* yielded was not linked in
Exhausted(m) == m.pot.potential /\ m.pot.cell = None

\* with_potentials hanging every PotentialPot off the pot it started from
with_potentials_next_root(m) ==
    IF Link(m, m.pot.cell, m.dir) # None
    THEN RealPot(Link(m, m.pot.cell, m.dir))
    ELSE PotentialPot(m.root)

\* next(with_potentials): the next real pot beyond the one the generator
\* rests on (the root, a pot of the chain, or the pot a PotentialPot linked
\* in), or a new PotentialPot hanging off it
with_potentials_next(m) ==
    IF Link(m, m.pot.cell, m.dir) # None
    THEN RealPot(Link(m, m.pot.cell, m.dir))
    ELSE PotentialPot(m.pot.cell)

\* a setter that links a new pot in on the first write, whatever the value
set_plant_eager(m, v) ==
    IF ~m.pot.potential THEN [m EXCEPT !.plant[m.pot.cell] = v]
    ELSE IF m.pot.cell # None THEN [m EXCEPT !.plant[m.pot.cell] = v]
    ELSE LET m1 == New(m, m.type[m.pot.parent], v)
         IN  [append(m1, m.pot.parent, m.dir, Newest(m1))
                  EXCEPT !.pot.cell = Newest(m1)]

\* a setter that links in an object of the PotentialPot's own class
set_plant_own_class(m, v) ==
    IF ~m.pot.potential THEN [m EXCEPT !.plant[m.pot.cell] = v]
    ELSE IF m.pot.cell # None THEN [m EXCEPT !.plant[m.pot.cell] = v]
    ELSE IF v
    THEN LET m1 == New(m, "PotentialPot", v)
         IN  [append(m1, m.pot.parent, m.dir, Newest(m1))
                  EXCEPT !.pot.cell = Newest(m1)]
    ELSE m

\* pot.plant = v, for a Pot and for the PotentialPot.plant setter, which
\* links in a new type(self.parent)(plant)
set_plant(m, v) ==
    IF ~m.pot.potential THEN [m EXCEPT !.plant[m.pot.cell] = v]
    ELSE IF m.pot.cell # None THEN [m EXCEPT !.plant[m.pot.cell] = v]
    ELSE IF v
    THEN LET m1 == New(m, m.type[m.pot.parent], v)
         IN  [append(m1, m.pot.parent, m.dir, Newest(m1))
                  EXCEPT !.pot.cell = Newest(m1)]
    ELSE m

\* one iteration of the zip loop
walk(m, map) ==
    LET m1 == [m EXCEPT !.pot = with_potentials_next(m)]
        m2 == [LookAdvance(m1, m.dir)
                   EXCEPT !.state = rot(m.dir, m.state, LookPlant(m1, m.dir))]
    IN  set_plant(m2, next_plant_state(map, m2.state))

\* the loop would run for ever: a linked-in PotentialPot at the end of the
\* chain, the lookahead on repeat(False), an all-False window, and the rules
\* plant the all-False window, so every further PotentialPot links in again
RunsForever(m, map) ==
    /\ m.pot.potential /\ m.pot.cell # None
    /\ Link(m, m.pot.cell, m.dir) = None
    /\ m.lookaheads[m.dir] = None
    /\ m.state = AllFalse
    /\ next_plant_state(map, AllFalse)

\* the zip loop never ends
spin(m) == [m EXCEPT !.pc = "forever"]

\* the loop has ended: pot = pot.parent
walk_end(m) ==
    IF ~m.pot.potential THEN Raise(m)
    ELSE [m EXCEPT !.pot = RealPot(m.pot.parent), !.pc = "trim"]

\* a trim loop that never runs
Trimming_never(m) == FALSE

\* a trim loop that stops one pot short of the root
Trimming_short(m) ==
    /\ ~m.plant[m.pot.cell]
    /\ m.pot.cell # m.root
    /\ Link(m, m.pot.cell, _reverse(m.dir)) # m.root

\* a trim loop without "pot is not root"
Trimming_past_root(m) == ~m.plant[m.pot.cell]

\* a trim loop that does not look at the plant
Trimming_to_root(m) == m.pot.cell # m.root

\* while not pot.plant and pot is not root
Trimming(m) == ~m.plant[m.pot.cell] /\ m.pot.cell # m.root

\* pot = pot.detach(rev)
trim(m) ==
    LET m1 == detach(m, m.pot.cell, _reverse(m.dir))
    IN  IF m1.pc = "raised" THEN m1
        ELSE [m1 EXCEPT !.pot = RealPot(Link(m, m.pot.cell, _reverse(m.dir)))]

\* the end of a pass: the right pass follows the left one, then apply returns
\* and its locals are gone
trim_end(m) ==
    IF m.dir = "left" THEN StartPass(m, "right")
    ELSE [m EXCEPT !.pc = "idle", !.dir = EmptyMachine.dir,
                   !.state = EmptyMachine.state,
                   !.central_state = EmptyMachine.central_state,
                   !.lookaheads = EmptyMachine.lookaheads,
                   !.pot = EmptyMachine.pot]

\* what apply does next from inside a pass
apply_next(m, map) ==
    IF m.pc = "walk"
    THEN IF Exhausted(m) THEN walk_end(m)
         ELSE IF RunsForever(m, map) THEN spin(m)
         ELSE walk(m, map)
    ELSE IF Trimming(m) THEN trim(m)
    ELSE trim_end(m)

RECURSIVE apply_rest(_, _)
apply_rest(m, map) ==
    IF m.pc \in {"walk", "trim"} THEN apply_rest(apply_next(m, map), map) ELSE m

\* Rules.apply as a whole: the machine when apply has returned (or can not)
apply(m, map) == apply_rest(apply_begin(m, map), map)

----------------------------------------------------------------------------
(* Plants.__str__ and Plants.score *)

Reverse(s) == [i \in 1..Len(s) |-> s[Len(s) + 1 - i]]

\* Pot.__str__
PotStr(m, c) == IF m.plant[c] THEN "#" ELSE "."

PotStrs(m, cs) == [i \in 1..Len(cs) |-> PotStr(m, cs[i])]

\* Plants.__str__
Str(m) ==
    Reverse(<<PotStr(m, m.root)>> \o PotStrs(m, iter_dir(m, m.root, "left")))
        \o PotStrs(m, iter_dir(m, m.root, "right"))

\* sum(i for i, p in enumerate(cs, 1) if p.plant), from index i on
RECURSIVE SumPlanted(_, _, _)
SumPlanted(m, cs, i) ==
    IF i > Len(cs) THEN 0
    ELSE (IF m.plant[cs[i]] THEN i ELSE 0) + SumPlanted(m, cs, i + 1)

\* a score that adds the left side instead of subtracting it
score_unsigned(m) ==
    SumPlanted(m, iter_dir(m, m.root, "right"), 1)
        + SumPlanted(m, iter_dir(m, m.root, "left"), 1)

\* Plants.score
score(m) ==
    SumPlanted(m, iter_dir(m, m.root, "right"), 1)
        - SumPlanted(m, iter_dir(m, m.root, "left"), 1)

----------------------------------------------------------------------------
(* The state machine *)

Machine ==
    [type |-> type, plant |-> plant, left |-> left, right |-> right, root |-> root, pc |-> pc,
     dir |-> dir, state |-> state, central_state |-> central_state,
     lookaheads |-> lookaheads, pot |-> pot]

Becomes(m) ==
    /\ type' = m.type
    /\ plant' = m.plant
    /\ left' = m.left
    /\ right' = m.right
    /\ root' = m.root
    /\ pc' = m.pc
    /\ dir' = m.dir
    /\ state' = m.state
    /\ central_state' = m.central_state
    /\ lookaheads' = m.lookaheads
    /\ pot' = m.pot

\* the test cell runs 20 generations of its own input; other inputs are run
\* for MaxSteps generations
StepLimit ==
    IF initial = TestTape /\ lines = TestRules THEN TestSteps ELSE MaxSteps

Init ==
    /\ initial \in Tapes
    /\ lines \in RuleFiles
    /\ type = EmptyMachine.type
    /\ plant = EmptyMachine.plant
    /\ left = EmptyMachine.left
    /\ right = EmptyMachine.right
    /\ root = EmptyMachine.root
    /\ pc = EmptyMachine.pc
    /\ dir = EmptyMachine.dir
    /\ state = EmptyMachine.state
    /\ central_state = EmptyMachine.central_state
    /\ lookaheads = EmptyMachine.lookaheads
    /\ pot = EmptyMachine.pot
    /\ mapping = << >>
    /\ steps = 0
    /\ old = [real |-> {}, planted |-> {}]
    /\ written = {}
    /\ calls = 0

\* Plants.from_lines: Pot.from_initial, then Rules.from_lines
Load ==
    /\ pc = "new"
    /\ IF from_initial(initial).pc = "raised" \/ from_lines_raises(lines)
       THEN Becomes(Raise(from_initial(initial))) /\ mapping' = mapping
       ELSE Becomes(from_initial(initial)) /\ mapping' = from_lines(lines)
    /\ UNCHANGED <<inputs, steps, history, calls>>

\* Plants.step: Rules.apply up to the first pass
Step ==
    /\ pc = "idle"
    /\ steps < StepLimit
    /\ Becomes(apply_begin(Machine, mapping))
    /\ old' = [real |-> Real(Machine), planted |-> Planted(Machine)]
    /\ written' = {root}
    /\ UNCHANGED <<inputs, mapping, steps, calls>>

Walk ==
    /\ pc = "walk"
    /\ ~Exhausted(Machine)
    /\ ~RunsForever(Machine, mapping)
    /\ Becomes(walk(Machine, mapping))
    /\ written' = written \cup ({walk(Machine, mapping).pot.cell} \ {None})
    /\ UNCHANGED <<inputs, mapping, steps, old, calls>>

Forever ==
    /\ pc = "walk"
    /\ ~Exhausted(Machine)
    /\ RunsForever(Machine, mapping)
    /\ Becomes(spin(Machine))
    /\ UNCHANGED <<inputs, mapping, steps, history, calls>>

WalkEnd ==
    /\ pc = "walk"
    /\ Exhausted(Machine)
    /\ Becomes(walk_end(Machine))
    /\ UNCHANGED <<inputs, mapping, steps, history, calls>>

Detach ==
    /\ pc = "trim"
    /\ Trimming(Machine)
    /\ Becomes(trim(Machine))
    /\ UNCHANGED <<inputs, mapping, steps, history, calls>>

TrimEnd ==
    /\ pc = "trim"
    /\ ~Trimming(Machine)
    /\ Becomes(trim_end(Machine))
    /\ steps' = IF dir = "right" THEN steps + 1 ELSE steps
    /\ UNCHANGED <<inputs, mapping, history, calls>>

\* a caller makes a pot of its own: Pot(False)
NewCell ==
    /\ pc = "idle"
    /\ calls < MaxCalls
    /\ Becomes(NewPot(Machine, FALSE))
    /\ calls' = calls + 1
    /\ UNCHANGED <<inputs, mapping, steps, history>>

\* a caller calls c.append(d, n) on pots it holds
CallAppend(c, d, n) ==
    /\ pc = "idle"
    /\ calls < MaxCalls
    /\ Becomes(append(Machine, c, d, n))
    /\ calls' = calls + 1
    /\ UNCHANGED <<inputs, mapping, steps, history>>

\* a caller calls c.detach(d) on a pot it holds
CallDetach(c, d) ==
    /\ pc = "idle"
    /\ calls < MaxCalls
    /\ Becomes(detach(Machine, c, d))
    /\ calls' = calls + 1
    /\ UNCHANGED <<inputs, mapping, steps, history>>

\* a caller makes PotentialPot(False, c, d) beyond the pot c that ends the
\* chain in direction d, as with_potentials does
MakeFrontier(c, d) ==
    /\ pc = "idle"
    /\ Link(Machine, c, d) = None
    /\ Becomes([Machine EXCEPT !.pot = PotentialPot(c), !.dir = d])
    /\ UNCHANGED <<inputs, mapping, steps, history, calls>>

\* the caller assigns v to the PotentialPot's plant
WriteFrontier(v) ==
    /\ pc = "idle"
    /\ pot.potential
    /\ calls < MaxCalls
    /\ Becomes(set_plant(Machine, v))
    /\ calls' = calls + 1
    /\ UNCHANGED <<inputs, mapping, steps, history>>

Next == Load \/ Step \/ Walk \/ Forever \/ WalkEnd \/ Detach \/ TrimEnd

Spec == Init /\ [][Next]_vars

\* the pots used through Pot's own methods instead of Plants.step: short
\* tapes, no rules
ApiInit ==
    /\ Init
    /\ initial \in StringsUpTo(MaxLen)
    /\ lines = NoRules

ApiNext ==
    \/ Load
    \/ NewCell
    \/ \E c \in 1..Len(plant), d \in Dirs, n \in 1..Len(plant) : CallAppend(c, d, n)
    \/ \E c \in 1..Len(plant), d \in Dirs : CallDetach(c, d)

ApiSpec == ApiInit /\ [][ApiNext]_vars

\* a PotentialPot used through its plant property instead of Rules.apply
FrontierNext ==
    \/ Load
    \/ \E c \in Reach(Machine), d \in Dirs : MakeFrontier(c, d)
    \/ \E v \in BOOLEAN : WriteFrontier(v)

FrontierSpec == ApiInit /\ [][FrontierNext]_vars

\* a call of apply that has started keeps running: each of its steps is
\* taken when it is the next one (the caller need not call step() again)
FairSpec ==
    /\ Spec
    /\ WF_vars(Walk) /\ WF_vars(WalkEnd) /\ WF_vars(Detach) /\ WF_vars(TrimEnd)

----------------------------------------------------------------------------
(* Sums, literals and generations of the unbounded tape *)

RECURSIVE SumOf(_)
SumOf(S) == IF S = {} THEN 0 ELSE LET x == CHOOSE y \in S : TRUE
                                  IN  x + SumOf(S \ {x})

Least(S) == CHOOSE x \in S : \A y \in S : x <= y

Greatest(S) == CHOOSE x \in S : \A y \in S : y <= x

\* the unbounded tape of a literal: character i stands at position i - 1
FromTape(s) == {i - 1 : i \in {j \in 1..Len(s) : s[j] = "#"}}

\* the window around position p of the unbounded tape with plants S
Window(S, p) == [i \in 1..5 |-> (p + i - 3) \in S]

\* one synchronous generation of the unbounded tape, for a mapping that
\* leaves the all-False window empty
Generation(map, S) ==
    IF S = {} THEN {}
    ELSE {p \in (Least(S) - 2)..(Greatest(S) + 2) : map[Window(S, p)]}

RECURSIVE Generations(_, _, _)
Generations(map, S, n) ==
    IF n = 0 THEN S ELSE Generations(map, Generation(map, S), n - 1)

\* the machine with one more real, empty pot beyond the outermost pot in
\* direction d
Pad(m, d) ==
    LET m1 == NewPot(m, FALSE)
    IN  append(m1, PotAt(m, IF d = "left" THEN Least(Real(m)) ELSE Greatest(Real(m))),
               d, Newest(m1))

Loaded == pc = "idle" /\ steps = 0

Stepped == pc = "idle" /\ steps >= 1

BlankFalse == AllFalse \in DOMAIN mapping /\ ~mapping[AllFalse]

----------------------------------------------------------------------------
(* Claims *)

\* C1: from the test tape with the test cell's 14 rules, after exactly 20
\* calls of step() the score is 325.
C1_TestScore ==
    (initial = TestTape /\ lines = TestRules /\ pc = "idle" /\ steps = TestSteps)
        => score(Machine) = 325

C1_TestRun ==
    initial = TestTape /\ lines = TestRules /\ pc = "idle" /\ steps = TestSteps

\* C2: for a mapping that leaves the all-False window empty, after any number
\* of step() calls the plants on the tape are those of the unbounded tape
\* after as many synchronous generations.
C2_SynchronousTape ==
    (pc = "idle" /\ BlankFalse)
        => Planted(Machine) = Generations(mapping, FromTape(initial), steps)

\* C3: step() on a tape and step() on the same tape with one more real empty
\* pot beyond an outermost pot leave the same planted positions.
C3_PaddingInvariant ==
    pc = "idle" =>
        \A d \in Dirs :
            LET a == apply(Machine, mapping)
                b == apply(Pad(Machine, d), mapping)
            IN  (a.pc = "idle" /\ b.pc = "idle") => Planted(a) = Planted(b)

HasPlant(s) == \E i \in 1..Len(s) : s[i] = "#"

FirstPlant(s) == Least({i \in 1..Len(s) : s[i] = "#"})

LastPlant(s) == Greatest({i \in 1..Len(s) : s[i] = "#"})

\* C4 as claimed: after any step() the string has at most one '.' before its
\* first '#' and at most one '.' after its last '#'.
C4_OneSlack ==
    (Stepped /\ HasPlant(Str(Machine))) =>
        /\ FirstPlant(Str(Machine)) <= 2
        /\ LastPlant(Str(Machine)) >= Len(Str(Machine)) - 1

\* the index of the root's character in Plants.__str__
RootIndex(m) == 1 - Least(Real(m))

\* C4 as amended: after any step() every '.' with no '#' before it stands at
\* or right of the root, and every '.' with no '#' after it stands at or left
\* of the root: only the pots between the root and the nearest plant stay.
C4_SlackOnlyTowardsRoot ==
    Stepped =>
        LET s == Str(Machine)
        IN  \A i \in 1..Len(s) :
                s[i] = "." =>
                    /\ (\A j \in 1..(i - 1) : s[j] = ".") => i >= RootIndex(Machine)
                    /\ (\A j \in (i + 1)..Len(s) : s[j] = ".") => i <= RootIndex(Machine)

C4_PlantsDriftedAway ==
    Stepped /\ Str(Machine) = <<".", ".", ".", "#">>

\* C5: with a mapping that leaves the all-False window empty, every call of
\* step() returns: a pass that is walking or trimming comes back to idle.
C5_StepReturns ==
    []((pc \in {"walk", "trim"} /\ BlankFalse) => <>(pc = "idle"))

C5_WalkedPastTheEnd ==
    /\ pc = "trim" /\ BlankFalse /\ dir = "right" /\ steps = 0
    /\ Greatest(Real(Machine)) > Len(initial) - 1

C7_EmptyTable ==
    (pc # "new" /\ mapping # << >> /\ \A k \in DOMAIN mapping : ~mapping[k]) =>
        /\ pc \notin {"raised", "forever"}
        /\ Stepped => /\ Planted(Machine) = {}
                      /\ left[root] = None
                      /\ right[root] = None

C7_ClearedTape ==
    /\ Stepped
    /\ \A k \in DOMAIN mapping : ~mapping[k]
    /\ Len(initial) >= 2 /\ initial[Len(initial)] = "#"

\* C8: the score is the sum of the signed positions of the planted pots (the
\* root counts 0); plants at -2, 0 and 3 score 1.
C8_ScoreIsSignedSum ==
    pc = "idle" =>
        /\ score(Machine) = SumOf(Planted(Machine))
        /\ Planted(Machine) = {0 - 2, 0, 3} => score(Machine) = 1

C8_BothSidesPlanted ==
    pc = "idle" /\ Planted(Machine) = {0 - 2, 0, 3}

\* C9: right after from_initial(s) the string of the tape is exactly s.
C9_RoundTrip ==
    (Loaded /\ \A i \in 1..Len(initial) : initial[i] \in TapeChars)
        => Str(Machine) = initial

C9_DotsAtBothEnds == Loaded /\ initial = <<".", "#", ".">>

\* C10: after from_initial(s) the root holds s[0] and has no left neighbour,
\* the pot i hops to its right holds s[i], and the chain has len(s) pots.
C10_ChainOfInitial ==
    Loaded =>
        /\ left[root] = None
        /\ Real(Machine) = 0..(Len(initial) - 1)
        /\ \A i \in 0..(Len(initial) - 1) :
               plant[PotAt(Machine, i)] = (initial[i + 1] = "#")

C10_MixedLiteral == Loaded /\ initial = <<"#", ".", "#">>

\* the non-blank lines of the rule file
RuleLines == {i \in 1..Len(lines) : ~IsBlank(lines[i])}

\* a line of five pattern symbols and one result symbol
SixSymbols(line) == Len(SelectSeq(line, IsSymbol)) = 6

Built == pc \notin {"new", "raised"}

\* C11: from well-formed rule lines the mapping is defined on exactly the 32
\* patterns of five booleans, and every pattern that no line lists is False.
C11_AbsentPatternsFalse ==
    (Built /\ \A i \in RuleLines : SixSymbols(lines[i])) =>
        /\ DOMAIN mapping = RuleKeys
        /\ \A k \in RuleKeys :
               (\A i \in RuleLines : KeyOf(lines[i]) # k) => ~mapping[k]

C11_TestRulesBuilt == Loaded /\ lines = TestRules

Repeats(ls) ==
    \E i, j \in 1..Len(ls) :
        i < j /\ ~IsBlank(ls[i]) /\ ~IsBlank(ls[j]) /\ KeyOf(ls[i]) = KeyOf(ls[j])

\* C12: when a pattern stands on more than one line, building the mapping
\* raises nothing and the pattern maps to the result of its last line.
C12_LastLineWins ==
    (/\ pc # "new" /\ initial # EmptyTape
     /\ Repeats(lines) /\ \A i \in RuleLines : SixSymbols(lines[i])) =>
        /\ pc # "raised"
        /\ \A i \in RuleLines :
               (\A j \in RuleLines : j > i => KeyOf(lines[j]) # KeyOf(lines[i]))
                   => mapping[KeyOf(lines[i])] = ResultOf(lines[i])

C12_DuplicatesBuilt == Loaded /\ lines = DuplicateRules

\* C13: from_initial on a literal with a character outside '.', '#' fails
\* and yields no tape.
C13_BadCharacterRejected ==
    (pc # "new" /\ \E i \in 1..Len(initial) : initial[i] \notin TapeChars)
        => pc = "raised"

\* C14: building the mapping fails for every non-blank line that is not five
\* pattern symbols, an arrow and a result symbol, and adds no entry for it.
C14_MalformedLineRejected ==
    (pc # "new" /\ \E i \in RuleLines : ~SixSymbols(lines[i]))
        => pc = "raised" /\ mapping = << >>

Sign(d) == IF d = "left" THEN 0 - 1 ELSE 1

\* the position of a pot of the chain
PosOfCell(m, c) == CHOOSE p \in Positions(m) : PotAt(m, p) = c

\* the position the loop variable stands for: a PotentialPot that has not
\* linked in stands one position beyond its parent
PotPos(m) ==
    IF m.pot.cell # None THEN PosOfCell(m, m.pot.cell)
    ELSE PosOfCell(m, m.pot.parent) + Sign(m.dir)

\* pot.plant, for a Pot and for the PotentialPot.plant getter
PotPlant(m) == IF m.pot.cell # None THEN m.plant[m.pot.cell] ELSE FALSE

\* C16: inside one step(), the value written at position p (the root, a
\* real pot, or a frontier position the walk visits) is the mapping's value
\* for the window old(p-2..p+2) of the tape as it was when step() was
\* called, in left-to-right order, in both passes; and once step() has
\* returned every position that held a real pot carries that value.
C16_WrittenFromOldWindow ==
    /\ pc = "walk" =>
           /\ state = Window(old.planted, PotPos(Machine))
           /\ PotPlant(Machine) = mapping[Window(old.planted, PotPos(Machine))]
    /\ Stepped =>
           \A p \in old.real :
               (p \in Planted(Machine)) = mapping[Window(old.planted, p)]

\* the right pass has linked a new pot in, after the root or a left pot
\* changed its plant
C16_RightPassAfterLeftChanged ==
    /\ pc = "walk" /\ dir = "right"
    /\ pot.potential /\ pot.cell # None
    /\ \E p \in old.real :
           p <= 0 /\ (p \in old.planted) # (p \in Planted(Machine))

\* C17: in each pass the lookahead read that precedes the write at distance
\* k from the root is of the pot at distance k+2 (False when there is none),
\* each write is one position further out than the one before, and the pot
\* read has not been written in this step (so a pot linked in during the
\* pass is never read by the lookahead).
C17_LookaheadTwoAhead ==
    [][Walk =>
          /\ PotPos(Machine)' = PotPos(Machine) + Sign(dir)
          /\ LookNext(Machine, dir)
                 = PotAt(Machine, PotPos(Machine)' + 2 * Sign(dir))
          /\ LookNext(Machine, dir) \notin written]_vars

\* the left pass has linked a new pot in while its lookahead is on
\* repeat(False)
C17_LinkedInPastTheLookahead ==
    /\ pc = "walk" /\ dir = "left"
    /\ pot.potential /\ pot.cell # None
    /\ lookaheads[dir] = None

\* C18: a pass ends its walk over the frontier only where no plant of the
\* pre-step tape lies inside the window of the next position out.
C18_WalkStopsPastEveryPlant ==
    (pc = "walk" /\ Exhausted(Machine)) =>
        Window(old.planted, PotPos(Machine) + Sign(dir)) = AllFalse

\* the last pot of the chain in direction d, the root when there is none
Outermost(m, d) ==
    LET s == iter_dir(m, m.root, d)
    IN  IF s = << >> THEN m.root ELSE s[Len(s)]

\* C19: after every step(), in each direction the outermost pot of the
\* chain holds a plant or is the root itself.
C19_EndsPlantedOrRoot ==
    Stepped =>
        \A d \in Dirs :
            Outermost(Machine, d) = root \/ plant[Outermost(Machine, d)]

\* a step has detached pots and left a planted pot at an end of the chain
C19_TrimmedToAPlant ==
    /\ Stepped
    /\ Cardinality(Real(Machine)) < Len(plant) - 1
    /\ \E d \in Dirs : Outermost(Machine, d) # root

\* C20: once the tape is built, and through every step(), the pots reachable
\* from the root form a finite chain without a cycle whose links are
\* symmetric (a.right is b exactly when b.left is a); a PotentialPot is never
\* part of it: every pot of the chain is of class Pot, while a PotentialPot
\* has not linked in the chain ends at its parent, and what it links in is a
\* new object.
C20_ChainWellFormed ==
    pc \in {"idle", "walk", "trim", "forever"} =>
        /\ \A d \in Dirs : Hop(Machine, root, d, Len(plant)) = None
        /\ \A a, b \in Reach(Machine) : (right[a] = b) <=> (left[b] = a)
        /\ \A a \in Reach(Machine) : type[a] = "Pot"
        /\ (pc = "walk" /\ pot.potential) =>
               IF pot.cell = None
               THEN Link(Machine, pot.parent, dir) = None
               ELSE /\ pot.cell \in Reach(Machine)
                    /\ pot.cell # pot.parent
                    /\ Link(Machine, pot.parent, dir) = pot.cell

\* steps have linked new pots in and the root has a neighbour on both sides
C20_GrownOnBothSides ==
    /\ Stepped
    /\ Len(plant) > Len(initial) + 1
    /\ left[root] # None /\ right[root] # None

\* getattr(c, d) once the step has been taken
LinkAfter(c, d) == IF d = "left" THEN left'[c] ELSE right'[c]

\* every link of the heap as it was, but for the links in L (pairs of a pot
\* and a direction)
LinksKeptBut(L) ==
    \A c \in 1..Len(plant), d \in Dirs :
        <<c, d>> \notin L => LinkAfter(c, d) = Link(Machine, c, d)

\* every plant of the heap as it was, but for the pots in S
PlantsKeptBut(S) == \A c \in (1..Len(plant)) \ S : plant'[c] = plant[c]

\* C21: a write of False to a PotentialPot that has not linked in leaves the
\* heap as it was and the PotentialPot still reads False; the first write of
\* True makes exactly one new Pot with a plant and links it beyond the
\* parent in the PotentialPot's direction, as the new end of the chain; every
\* later write goes to that one pot and makes no further pot.
C21_FrontierWrite ==
    [][\A v \in BOOLEAN :
          WriteFrontier(v) =>
              IF pot.cell # None
              THEN /\ Len(plant') = Len(plant)
                   /\ pot' = pot
                   /\ plant'[pot.cell] = v
                   /\ PotPlant(Machine)' = v
                   /\ PlantsKeptBut({pot.cell}) /\ LinksKeptBut({})
              ELSE IF ~v
              THEN /\ type' = type /\ plant' = plant
                   /\ left' = left /\ right' = right
                   /\ pot' = pot
                   /\ PotPlant(Machine)' = FALSE
              ELSE /\ Len(plant') = Len(plant) + 1
                   /\ pot' = [pot EXCEPT !.cell = Len(plant) + 1]
                   /\ type'[Len(plant) + 1] = "Pot" /\ plant'[Len(plant) + 1]
                   /\ LinkAfter(pot.parent, dir) = Len(plant) + 1
                   /\ LinkAfter(Len(plant) + 1, _reverse(dir)) = pot.parent
                   /\ LinkAfter(Len(plant) + 1, dir) = None
                   /\ PlantsKeptBut({}) /\ LinksKeptBut({<<pot.parent, dir>>})
                   /\ pc' = "idle"]_vars

\* a PotentialPot that linked a pot in on a write of True has then been
\* written False
C21_WrittenThrough ==
    /\ pc = "idle" /\ calls = MaxCalls
    /\ pot.potential /\ pot.cell # None
    /\ ~plant[pot.cell]

\* the positions up to n beyond the pots the chain had when step() was called
Within(n) == (Least(old.real) - n)..(Greatest(old.real) + n)

\* C22: with a mapping that leaves the all-False window empty, one step()
\* links new pots in at most two positions beyond the outermost pot the
\* chain had before, in each direction, and its walk visits at most three
\* frontier positions in each direction.
C22_GrowthBound ==
    (BlankFalse /\ old.real # {} /\ pc \in {"idle", "walk", "trim"}) =>
        /\ Real(Machine) \subseteq Within(2)
        /\ (pc = "walk" /\ pot.potential) => PotPos(Machine) \in Within(3)

\* the right pass has linked in two pots and its third PotentialPot has not
\* linked in
C22_ThirdFrontierPosition ==
    /\ BlankFalse /\ pc = "walk" /\ dir = "right"
    /\ pot.potential /\ pot.cell = None
    /\ PotPos(Machine) = Greatest(old.real) + 3
    /\ Greatest(Real(Machine)) = Greatest(old.real) + 2

\* C23: trimming detaches only pots without a plant, one at a time, each
\* the outermost pot of the chain in the direction of the pass; the planted
\* positions, and so the score, are the same before and after each detach
\* and at the end of the trim loop.
C23_TrimKeepsPlants ==
    [][/\ Detach =>
              /\ pot.cell = Outermost(Machine, dir)
              /\ ~plant[pot.cell]
              /\ Real(Machine)' = Real(Machine) \ {PotPos(Machine)}
       /\ (Detach \/ TrimEnd) =>
              /\ Planted(Machine)' = Planted(Machine)
              /\ score(Machine)' = score(Machine)]_vars

\* the trim loop has detached a pot this step has written, and plants remain
C23_DetachedAndPlanted ==
    /\ pc = "trim"
    /\ \E c \in written : c \notin Reach(Machine)
    /\ Planted(Machine) # {}

\* the root and the pots iter_dir yields from it
ChainCells(m) ==
    {m.root} \cup UNION {LET s == iter_dir(m, m.root, d)
                          IN  {s[i] : i \in 1..Len(s)} : d \in Dirs}

\* C24: from the built tape on the root is always the same pot: no step
\* replaces it, the trim loop never calls detach on it and never cuts it from
\* the pots on the other side, and every pot that stays on the chain keeps
\* its signed distance from the root, whatever is linked in or detached: at
\* each distance in each direction the chain holds the pot it held before,
\* or a pot that was not on the chain.
C24_RootStays ==
    [][pc # "new" =>
          /\ root' = root
          /\ \A d \in Dirs :
                 LET was == iter_dir(Machine, root, d)
                     is == iter_dir(Machine, root, d)'
                     n == Min(Len(was), Len(is))
                 IN  /\ SubSeq(is, 1, n) = SubSeq(was, 1, n)
                     /\ \A i \in (n + 1)..Len(is) :
                            is[i] \notin ChainCells(Machine)
          /\ Detach =>
                 /\ pot.cell # root
                 /\ LinkAfter(root, _reverse(dir))
                        = Link(Machine, root, _reverse(dir))]_vars

\* steps have linked a new pot in left of the root while the pot right of
\* the root is still the one the tape literal put there
C24_GrownOnTheLeft ==
    /\ Stepped
    /\ \E c \in Reach(Machine) :
           c > Len(initial) + 1 /\ PosOfCell(Machine, c) < 0
    /\ PotAt(Machine, 1) = root + 1

\* C25: from_initial on the empty literal returns no root: it raises (start
\* has no right neighbour, and None has no attribute left), so no Plants is
\* made of it, and a Plants always has a root pot.
C25_EmptyTapeRejected ==
    /\ (pc # "new" /\ initial = EmptyTape) => (pc = "raised" /\ root = None)
    /\ pc \notin {"new", "raised"} => root \in 1..Len(plant)

\* the load of the empty literal has raised, with rules that build
C25_EmptyTapeLoaded ==
    pc = "raised" /\ initial = EmptyTape /\ lines = TestRules

\* C15: append on a pot that already has a neighbour in that direction, and
\* detach on a pot without a neighbour in that direction, fail (the assert
\* raises) and leave every pot's left and right link as it was.
C15_PreconditionsGuardLinks ==
    [][\/ pc' = "raised" /\ left' = left /\ right' = right
       \/ /\ \A c \in 1..Len(plant), d \in Dirs, n \in 1..Len(plant) :
                 ~(Link(Machine, c, d) # None /\ CallAppend(c, d, n))
          /\ \A c \in 1..Len(plant), d \in Dirs :
                 ~(Link(Machine, c, d) = None /\ CallDetach(c, d))]_vars

\* a direct call has been refused
C15_CallRefused == pc = "raised" /\ calls > 0

====
